---- MODULE Spec2Model ----
(***************************************************************************)
(* A model of gym_flock's CoverageEnv (envs/spatial/coverage.py): the      *)
(* motion graph built from road-filtered lattice points, reset/step with   *)
(* the collision policy, the action-edge list, the visitation reward and   *)
(* the done flag, the time-matrix relaxation, the controller with its     *)
(* cached matrices and routes, seed, and the discovered flags of partial   *)
(* observability.                                                          *)
(*                                                                         *)
(* Arrays keep the code's 0-based indices (functions over 0..n-1); edge    *)
(* lists are sequences of <<sender, receiver>> pairs.  Positions are       *)
(* lattice index pairs <<a, b>>: a point's coordinates divided by the      *)
(* lattice spacing DELTA, so that distances compare as in the code.        *)
(***************************************************************************)
EXTENDS Integers, Sequences, FiniteSets, TLC

VARIABLES
    n_robots,             \* constructor argument
    episode_length,       \* constructor argument
    nearby_starts,        \* constructor argument
    frac_active_targets,  \* constructor argument, <<numerator, denominator>>
    horizon,              \* constructor argument
    status,               \* "constructed", "ready", or how a call ended: "error",
                          \* "shape_error" (get_action_edges), "failed", "hung"
    targets,              \* the target positions, in lattice order
    x,                    \* position of every agent (robots, then targets)
    visited,              \* visited flag of every agent
    motion_edges,         \* the motion graph's edge list
    start_region,         \* target indices robots may start on
    step_counter,
    episode_reward,
    mov_edges,            \* the mirrored action edges of the last observation
    reward,               \* the reward the last step returned (0 before one)
    done,                 \* the done flag the last step returned (FALSE before one)
    n_motion_edges,       \* the length of the buffers' motion-edge prefix
    senders,              \* the sender buffer of the observation
    receivers,            \* the receiver buffer of the observation
    graph_cost,           \* the cached time matrix, or None
    graph_previous,       \* the cached predecessor matrix, or None
    cached_solution,      \* the cached route of every robot, or None
    np_random,            \* the random generator, named by what seeded it
    ctl,                  \* what the last controller call returned, until a step
                          \* or a reset follows it; None otherwise
    op,                   \* history: the operation that led to this state
    calls,                \* history: step calls since the last reset
    tm,                   \* state of the time-matrix specification
    gt,                   \* state of the target-generation specification
    hn,                   \* state of the partial-observability specification
    max_calls             \* the step calls the model follows in one episode

vars == <<n_robots, episode_length, nearby_starts, frac_active_targets, horizon,
          status, targets, x, visited, motion_edges, start_region, step_counter,
          episode_reward, mov_edges, reward, done, n_motion_edges, senders,
          receivers, graph_cost, graph_previous, cached_solution, np_random, ctl,
          op, calls, tm, gt, hn, max_calls>>

\* The constructor arguments.
config == <<n_robots, episode_length, nearby_starts, frac_active_targets, horizon>>

\* Program constants (coverage.py).
N_ACTIONS == 4
MAX_COST == 1000
NEARBY_DENSITY == 5
HORIZON == 10
MAX_EDGES == 4

\* Bounds of the model.
MaxRobots == 3
MaxEpisodeLength == 2
MaxSteps == 2
GreedyEpisodeLength == 8
MaxHorizon == 2

\* Python's None, for a list or an array.
None == <<>>

Min(S) == CHOOSE m \in S : \A k \in S : m <= k

\* The function f itself, stored by TLC as an explicit table (f @@ <<>> = f).
Explicit(f) == f @@ <<>>

\* Sum of a 0/1 array over the index set S (np.sum of a slice of flags).
SumOver(f, S) == Cardinality({i \in S : f[i] = 1})

-----------------------------------------------------------------------------
\* Geometry.

\* generate_lattice emits the points with the first lattice index as the outer
\* loop and the second as the inner one.
LatticeLess(p, q) == p[1] < q[1] \/ (p[1] = q[1] /\ p[2] < q[2])

RECURSIVE SortPoints(_)
SortPoints(S) ==
    IF S = {} THEN <<>>
    ELSE LET p == CHOOSE q \in S : \A r \in S \ {q} : LatticeLess(q, r)
         IN  <<p>> \o SortPoints(S \ {p})

\* Squared distance in units of DELTA^2.
Dist2(p, q) == (p[1] - q[1]) * (p[1] - q[1]) + (p[2] - q[2]) * (p[2] - q[2])

\* dist <= motion_radius, where motion_radius = res * 1.2 and res = DELTA.
WithinMotionRadius(p, q) == Dist2(p, q) * 100 <= 144

\* The lattice points the road filter keeps: a few road layouts.
RoadFiltered ==
    { {<<0, 0>>, <<0, 1>>, <<0, 2>>, <<0, 3>>},
      {<<0, 1>>, <<1, 0>>, <<1, 1>>, <<1, 2>>, <<2, 1>>},
      {<<0, 0>>, <<0, 1>>, <<1, 0>>, <<1, 1>>},
      {<<0, 0>>, <<2, 0>>, <<2, 1>>, <<2, 2>>},
      {<<0, 0>>, <<0, 1>>, <<2, 0>>, <<2, 1>>},
      {<<0, 0>>, <<2, 2>>},
      {} }

\* _generate_targets: the radius graph over the kept points (an edge where
\* 0 < dist <= motion_radius), its connected components labelled in order of
\* their first point, and the points of the largest component (np.argmax takes
\* the first of equal maxima).
RadiusNeighbour(pts, i, j) == i # j /\ WithinMotionRadius(pts[i], pts[j])

RECURSIVE Component(_, _)
Component(pts, S) ==
    LET T == S \cup {j \in 1..Len(pts) : \E i \in S : RadiusNeighbour(pts, i, j)}
    IN  IF T = S THEN S ELSE Component(pts, T)

ComponentLabels(pts) ==
    LET first == [i \in 1..Len(pts) |-> Min(Component(pts, {i}))]
    IN  [i \in 1..Len(pts) |->
            Cardinality({first[j] : j \in {k \in 1..Len(pts) : first[k] < first[i]}})]

Bincount(labels) ==
    [l \in {labels[i] : i \in DOMAIN labels} |->
        Cardinality({i \in DOMAIN labels : labels[i] = l})]

\* np.argmax: the lowest index holding the maximum.
ArgMax(f) ==
    CHOOSE l \in DOMAIN f :
        \A m \in DOMAIN f : f[m] < f[l] \/ (f[m] = f[l] /\ l <= m)

\* The highest label among the largest components.
LastLargestLabel(labels) ==
    CHOOSE l \in DOMAIN Bincount(labels) :
        \A m \in DOMAIN Bincount(labels) :
            \/ Bincount(labels)[m] < Bincount(labels)[l]
            \/ (Bincount(labels)[m] = Bincount(labels)[l] /\ m <= l)

FirstLargestLabel(labels) == ArgMax(Bincount(labels))

RECURSIVE KeepLabel(_, _, _, _)
KeepLabel(pts, labels, l, k) ==
    IF k = 0 THEN <<>>
    ELSE KeepLabel(pts, labels, l, k - 1)
             \o (IF labels[k] = l THEN <<pts[k]>> ELSE <<>>)

\* np.argmax of the empty bincount raises when no point was kept.
GenerateTargetsRaises(kept) == kept = {}

GenerateTargets(kept) ==
    LET pts    == SortPoints(kept)
        labels == ComponentLabels(pts)
    IN  KeepLabel(pts, labels, FirstLargestLabel(labels), Len(pts))

\* _get_graph_edges(motion_radius, targets, self_loops=True): every ordered
\* pair of targets within the radius, a target with itself included, in
\* row-major order; _initialize_graph shifts the indices by n_robots.
RECURSIVE GraphEdges(_, _)
GraphEdges(tg, k) ==
    IF k = 0 THEN <<>>
    ELSE LET s == (k - 1) \div Len(tg)
             r == (k - 1) % Len(tg)
         IN  GraphEdges(tg, k - 1)
                 \o (IF WithinMotionRadius(tg[s + 1], tg[r + 1])
                     THEN <<(<<s, r>>)>> ELSE <<>>)

MotionEdges(tg, nr) ==
    LET e == GraphEdges(tg, Len(tg) * Len(tg))
    IN  [k \in 1..Len(e) |-> <<e[k][1] + nr, e[k][2] + nr>>]

\* get_n_nearest: grow {i} along the edges until it has n members.  When a
\* pass adds nothing and the set is still smaller than n, the while loop never
\* ends: diverges says so.
RECURSIVE NNearestFrom(_, _, _)
NNearestFrom(S, n, E) ==
    IF Cardinality(S) >= n THEN [diverges |-> FALSE, set |-> S]
    ELSE LET temp == {E[k][2] : k \in {j \in 1..Len(E) : E[j][1] \in S}}
         IN  IF temp \subseteq S THEN [diverges |-> TRUE, set |-> S]
             ELSE NNearestFrom(S \cup temp, n, E)

get_n_nearest(i, n, medges, nr) ==
    NNearestFrom({i}, n, [k \in 1..Len(medges) |->
                              <<medges[k][1] - nr, medges[k][2] - nr>>])

\* closest_targets: for each robot the nearest target (np.argmin takes the
\* lowest index among equal distances), as an agent index.
ArgMin(f) ==
    CHOOSE l \in DOMAIN f :
        \A m \in DOMAIN f : f[l] < f[m] \/ (f[m] = f[l] /\ l <= m)

closest_targets(xx, nr, nt) ==
    Explicit([i \in 0..(nr - 1) |->
                 ArgMin(Explicit([j \in 0..(nt - 1) |-> Dist2(xx[i], xx[nr + j])])) + nr])

-----------------------------------------------------------------------------
\* Action edges.

Repeat(v, k) == [j \in 1..k |-> v]

RECURSIVE Flatten(_, _)
Flatten(f, k) == IF k = 0 THEN <<>> ELSE Flatten(f, k - 1) \o f[k - 1]

\* motion_edges[1][np.where(motion_edges[0] == c)]
Receivers(edges, c) ==
    LET sel == SelectSeq(edges, LAMBDA e : e[1] = c)
    IN  [k \in 1..Len(sel) |-> sel[k][2]]

\* A candidate list with the padding in front.
NextNodesPaddedFirst(medges, c) ==
    LET next_nodes == Receivers(medges, c)
    IN  IF Len(next_nodes) < N_ACTIONS
        THEN Repeat(c, N_ACTIONS - Len(next_nodes)) \o next_nodes
        ELSE next_nodes

\* One robot's candidate list: the motion edges leaving its node, padded with
\* loops to that node when there are fewer than N_ACTIONS.
NextNodes(medges, c) ==
    LET next_nodes == Receivers(medges, c)
    IN  IF Len(next_nodes) < N_ACTIONS
        THEN next_nodes \o Repeat(c, N_ACTIONS - Len(next_nodes))
        ELSE next_nodes

\* get_action_edges: N_ACTIONS senders per robot, and each robot's candidates.
get_action_edges(medges, curr_nodes, nr) ==
    [senders   |-> Flatten([i \in 0..(nr - 1) |-> Repeat(i, N_ACTIONS)], nr),
     receivers |-> Flatten([i \in 0..(nr - 1) |-> NextNodes(medges, curr_nodes[i])], nr)]

\* self.x[senders, :] - self.x[receivers, :] raises unless the shapes agree.
ActionEdgesRaise(ae) == Len(ae.senders) # Len(ae.receivers)

\* mov_edges = (senders ++ receivers, receivers ++ senders)
Mirror(ae) == <<ae.senders \o ae.receivers, ae.receivers \o ae.senders>>

\* mov_edges[1][np.where(mov_edges[0] == i)]
RobotEdges(me, i) ==
    LET idx == SelectSeq([k \in 1..Len(me[1]) |-> k], LAMBDA k : me[1][k] = i)
    IN  Explicit([k \in 1..Len(idx) |-> me[2][idx[k]]])

-----------------------------------------------------------------------------
\* The environment's mutable fields, as one record.

COLLISION_CHECKS == TRUE

Robots == 0..(n_robots - 1)
n_targets == Len(targets)
n_agents == n_robots + n_targets
TargetNodes(nr, nt) == nr..(nr + nt - 1)
Range(f) == {f[i] : i \in DOMAIN f}

Env ==
    [status |-> status, targets |-> targets, x |-> x, visited |-> visited,
     motion_edges |-> motion_edges, start_region |-> start_region,
     step_counter |-> step_counter, episode_reward |-> episode_reward,
     mov_edges |-> mov_edges, reward |-> reward, done |-> done,
     n_motion_edges |-> n_motion_edges, senders |-> senders,
     receivers |-> receivers]

Commit(e) ==
    /\ status' = e.status
    /\ targets' = e.targets
    /\ x' = e.x
    /\ visited' = e.visited
    /\ motion_edges' = e.motion_edges
    /\ start_region' = e.start_region
    /\ step_counter' = e.step_counter
    /\ episode_reward' = e.episode_reward
    /\ mov_edges' = e.mov_edges
    /\ reward' = e.reward
    /\ done' = e.done
    /\ n_motion_edges' = e.n_motion_edges
    /\ senders' = e.senders
    /\ receivers' = e.receivers

\* A visitation update that forgets what was visited before.
MarkVisitedOnlyCurrent(vis, curr) ==
    Explicit([i \in DOMAIN vis |-> IF i \in Range(curr) THEN 1 ELSE 0])

\* An observation that marks nothing.
MarkVisitedNever(vis, curr) == vis

\* self.visited[self.closest_targets] = 1
MarkVisited(vis, curr) ==
    Explicit([i \in DOMAIN vis |-> IF i \in Range(curr) THEN 1 ELSE vis[i]])

\* A done flag that looks at the step budget only.
DoneFlagBudgetOnly(sc, el, n_visited, nt) == sc = el

\* done = step_counter == episode_length or sum(visited[n_robots:]) == n_targets
DoneFlag(sc, el, n_visited, nt) == sc = el \/ n_visited = nt

\* A cumulative reward.
RewardCumulative(new_sum, old_sum) == new_sum

\* reward = sum(visited[n_robots:]) - old_sum
Reward(new_sum, old_sum) == new_sum - old_sum

\* The constructor argument max_nodes the model constructs the environment
\* with (pad_nodes=True), and the length of the edge buffers.
max_nodes == 12
max_edges == max_nodes * MAX_EDGES

\* -1 * np.ones((max_edges,)) with buf[:len(prefix)] = prefix
FreshBuffer(prefix) ==
    [k \in 1..max_edges |-> IF k <= Len(prefix) THEN prefix[k] ELSE -1]

\* buf[n_motion_edges:] = -1, then buf[-len(suffix):] = suffix
WriteBuffer(buf, nme, suffix) ==
    [k \in 1..Len(buf) |->
        IF k > Len(buf) - Len(suffix) THEN suffix[k - (Len(buf) - Len(suffix))]
        ELSE IF k > nme THEN -1
        ELSE buf[k]]

\* assert len(senders) + self.n_motion_edges <= np.shape(self.senders)[0]
BufferTooSmall(e, ae) == 2 * Len(ae.senders) + e.n_motion_edges > Len(e.senders)

\* _get_obs_reward on the fields e: the action edges of the robots' current
\* nodes (curr, ae), the visitation update, the step counter, done and reward.
\* An exception leaves the fields assigned so far.
ObsRewardWith(e, nr, el, nt, curr, ae, old_sum, new_sum) ==
    IF ActionEdgesRaise(ae)
    THEN [e EXCEPT !.status = "shape_error"]
    ELSE IF BufferTooSmall(e, ae)
    THEN [e EXCEPT !.mov_edges = Mirror(ae),
                   !.visited = MarkVisited(e.visited, curr),
                   !.status = "error"]
    ELSE [e EXCEPT !.mov_edges = Mirror(ae),
                   !.visited = MarkVisited(e.visited, curr),
                   !.senders = WriteBuffer(@, e.n_motion_edges, Mirror(ae)[2]),
                   !.receivers = WriteBuffer(@, e.n_motion_edges, Mirror(ae)[1]),
                   !.step_counter = @ + 1,
                   !.done = DoneFlag(e.step_counter + 1, el, new_sum, nt),
                   !.reward = Reward(new_sum, old_sum),
                   !.episode_reward = @ + Reward(new_sum, old_sum)]

ObsRewardAt(e, nr, el, nt, curr) ==
    ObsRewardWith(e, nr, el, nt, curr,
                  get_action_edges(e.motion_edges, curr, nr),
                  SumOver(e.visited, TargetNodes(nr, nt)),
                  SumOver(MarkVisited(e.visited, curr), TargetNodes(nr, nt)))

get_obs_reward(e, nr, el) ==
    ObsRewardAt(e, nr, el, Len(e.targets), closest_targets(e.x, nr, Len(e.targets)))

\* _initialize_graph(targets): the agents' arrays, the motion graph me and the
\* start region; n_nearest is get_n_nearest from the random target i0.
InitializeGraphWith(e, tg, nr, nearby, nt, me, n_nearest) ==
    LET e1 == [e EXCEPT !.targets = tg,
                        !.x = Explicit([i \in 0..(nr + nt - 1) |->
                                  IF i < nr THEN <<0, 0>> ELSE tg[i - nr + 1]]),
                        !.visited = Explicit([i \in 0..(nr + nt - 1) |-> 1]),
                        !.motion_edges = me,
                        !.n_motion_edges = Len(me),
                        !.senders = FreshBuffer([k \in 1..Len(me) |-> me[k][1]]),
                        !.receivers = FreshBuffer([k \in 1..Len(me) |-> me[k][2]])]
    IN  IF ~nearby THEN [e1 EXCEPT !.start_region = 0..(nt - 1)]
        ELSE IF n_nearest.diverges THEN [e1 EXCEPT !.status = "hung"]
        ELSE [e1 EXCEPT !.start_region = n_nearest.set \cap (0..(nt - 1))]

InitializeGraphOn(e, tg, nr, nearby, i0, me) ==
    InitializeGraphWith(e, tg, nr, nearby, Len(tg), me,
                        get_n_nearest(i0, nr * NEARBY_DENSITY, me, nr))

initialize_graph(e, tg, nr, nearby, i0) ==
    InitializeGraphOn(e, tg, nr, nearby, i0, MotionEdges(tg, nr))

-----------------------------------------------------------------------------
\* Construction and reset.

Blank ==
    [status |-> "constructed", targets |-> <<>>, x |-> <<>>, visited |-> <<>>,
     motion_edges |-> <<>>, start_region |-> {}, step_counter |-> 0,
     episode_reward |-> 0, mov_edges |-> None, reward |-> 0, done |-> FALSE,
     n_motion_edges |-> 0, senders |-> <<>>, receivers |-> <<>>]

EnvIs(e) ==
    /\ status = e.status
    /\ targets = e.targets
    /\ x = e.x
    /\ visited = e.visited
    /\ motion_edges = e.motion_edges
    /\ start_region = e.start_region
    /\ step_counter = e.step_counter
    /\ episode_reward = e.episode_reward
    /\ mov_edges = e.mov_edges
    /\ reward = e.reward
    /\ done = e.done
    /\ n_motion_edges = e.n_motion_edges
    /\ senders = e.senders
    /\ receivers = e.receivers

TmIdle == [pc |-> "idle"]
GtIdle == [pc |-> "idle"]
HnIdle == [pc |-> "idle"]

\* The targets np_random.choice(n_targets) can name as the start of the
\* nearby-start region.
StartChoices(kept, nearby) ==
    IF nearby /\ ~GenerateTargetsRaises(kept)
    THEN 0..(Len(GenerateTargets(kept)) - 1) ELSE {0}

\* The values of frac_active_targets the model constructs the environment
\* with: every target active.
FracChoices == {<<1, 1>>}

\* __init__ with init_graph=True: after the graph is built, n_motion_edges is
\* set to 0.
Construct(kept, nr, nearby, i0) ==
    IF GenerateTargetsRaises(kept) THEN [Blank EXCEPT !.status = "failed"]
    ELSE [initialize_graph(Blank, GenerateTargets(kept), nr, nearby, i0)
             EXCEPT !.n_motion_edges = 0]

\* seeding.np_random(seed): a generator seeded with seed, or from the system's
\* entropy when seed is None.
FromEntropy == [entropy |-> TRUE, seed |-> 0]
SeededWith(value) == [entropy |-> FALSE, seed |-> value]

\* The controller's caches are None after __init__ and after reset; __init__
\* calls seed().
NoCaches ==
    /\ np_random = FromEntropy
    /\ graph_cost = None
    /\ graph_previous = None
    /\ cached_solution = None
    /\ ctl = None

\* The environment as __init__ leaves it, for n_robots in robots and horizon
\* in horizons.
Constructed(robots, horizons) ==
    /\ n_robots \in robots
    /\ episode_length \in 1..MaxEpisodeLength
    /\ nearby_starts \in BOOLEAN
    /\ frac_active_targets \in FracChoices
    /\ horizon \in horizons
    /\ \E kept \in RoadFiltered :
         \E i0 \in StartChoices(kept, nearby_starts) :
            \E e \in {Construct(kept, n_robots, nearby_starts, i0)} : EnvIs(e)
    /\ NoCaches
    /\ op = "init"
    /\ calls = 0
    /\ max_calls = MaxSteps

Init ==
    /\ Constructed(1..MaxRobots, {HORIZON})
    /\ tm = TmIdle
    /\ gt = GtIdle
    /\ hn = HnIdle

Injections(D, S) == {f \in [D -> S] : \A i, j \in D : i # j => f[i] # f[j]}

SubsetsOfSize(S, k) == {U \in SUBSET S : Cardinality(U) = k}

\* int(len(unvisited_targets) * frac_active_targets)
NumActive(nt, frac) == (nt * frac[1]) \div frac[2]

\* The rest of reset once the graph is built: robots on the drawn start
\* targets, the drawn targets unvisited, and the first observation, whose
\* reward and done flag reset does not return.
AfterFirstObs(e2) ==
    IF e2.status \in {"shape_error", "error"} THEN e2
    ELSE [e2 EXCEPT !.status = "ready", !.reward = 0, !.done = FALSE]

reset_episode(g, nearest_landmarks, unvisited, nr, el) ==
    AfterFirstObs(get_obs_reward(
        [g EXCEPT
           !.x = Explicit([i \in DOMAIN g.x |->
                     IF i < nr THEN g.x[nearest_landmarks[i] + nr] ELSE g.x[i]]),
           !.visited = Explicit([i \in DOMAIN g.visited |->
                                    IF i \in unvisited THEN 0 ELSE 1])],
        nr, el))

\* reset from the built graph g: np_random.choice(..., replace=False) raises
\* when the start region has fewer targets than there are robots.
ResetOnGraph(g, nr, frac, el) ==
    IF g.status = "hung" THEN {g}
    ELSE IF Cardinality(g.start_region) < nr THEN {[g EXCEPT !.status = "error"]}
    ELSE {reset_episode(g, nl, u, nr, el) :
              nl \in Injections(0..(nr - 1), g.start_region),
              u \in SubsetsOfSize(TargetNodes(nr, Len(g.targets)),
                                  NumActive(Len(g.targets), frac))}

\* Every outcome of reset for the given constructor arguments, for the road
\* layouts that keep some point; the fields reset does not assign are Blank's.
ResetOutcomes(nr, nearby, frac, el) ==
    UNION {ResetOnGraph(initialize_graph(Blank, GenerateTargets(ki[1]), nr, nearby, ki[2]),
                        nr, frac, el) :
               ki \in UNION {{<<kept, i0>> : i0 \in StartChoices(kept, nearby)} :
                                 kept \in {k \in RoadFiltered : ~GenerateTargetsRaises(k)}}}

\* The constructor arguments of the greedy-coverage specification: one robot
\* and a long step budget.
GreedyConfigs == {1} \X {FALSE} \X FracChoices \X {GreedyEpisodeLength}

Configs ==
    ((1..MaxRobots) \X BOOLEAN \X FracChoices \X (1..MaxEpisodeLength))
        \cup GreedyConfigs

\* (@@ makes the table an explicit function, evaluated once.)
ResetTable == [c \in Configs |-> ResetOutcomes(c[1], c[2], c[3], c[4])] @@ <<>>

\* reset, called after construction and whenever an episode is over.  It
\* builds a new graph every time (_generate_targets reports graph_changed =
\* True), so what it leaves does not depend on the episode before it.
ResetAllowed ==
    \/ status = "constructed"
    \/ status = "ready" /\ done

\* A reset that keeps the matrices of the graph before it.
KeptAcrossReset(matrix) == matrix

\* self.graph_previous = None, self.graph_cost = None
Invalidated(matrix) == None

Reset ==
    /\ ResetAllowed
    /\ \/ /\ \E kept \in RoadFiltered : GenerateTargetsRaises(kept)
          /\ Commit([Env EXCEPT !.episode_reward = 0, !.step_counter = 0,
                                !.status = "error"])
          /\ UNCHANGED <<graph_cost, graph_previous>>
       \/ /\ \E r \in ResetTable[<<n_robots, nearby_starts, frac_active_targets,
                                  episode_length>>] :
                Commit(r)
          /\ graph_cost' = Invalidated(graph_cost)
          /\ graph_previous' = Invalidated(graph_previous)
    /\ cached_solution' = None
    /\ ctl' = None
    /\ op' = "reset"
    /\ calls' = 0
    /\ UNCHANGED <<config, np_random, tm, gt, hn, max_calls>>

-----------------------------------------------------------------------------
\* step.

\* A first loop that finalizes nobody.
FirstPassNobody(ch, ll, nr) == Explicit([i \in 0..(nr - 1) |-> -1])

\* First loop of step: a robot whose action names its own node is finalized
\* there; the others are left at -1.
FirstPass(ch, ll, nr) ==
    Explicit([i \in 0..(nr - 1) |-> IF ch[i] = ll[i] THEN ch[i] ELSE -1])

\* A second loop that makes no collision check.
RECURSIVE SecondPassUnchecked(_, _, _, _, _, _)
SecondPassUnchecked(nl, xx, ch, ll, i, nr) ==
    IF i = nr THEN <<nl, xx>>
    ELSE IF nl[i] # -1 THEN SecondPassUnchecked(nl, xx, ch, ll, i + 1, nr)
    ELSE SecondPassUnchecked([nl EXCEPT ![i] = ch[i]], [xx EXCEPT ![i] = xx[ch[i]]],
                             ch, ll, i + 1, nr)

\* Second loop of step, from robot i on: a robot not yet finalized moves to its
\* destination unless that node is already in next_locs, and otherwise is
\* finalized at its previous node.
RECURSIVE SecondPass(_, _, _, _, _, _)
SecondPass(nl, xx, ch, ll, i, nr) ==
    IF i = nr THEN <<nl, xx>>
    ELSE IF nl[i] # -1 THEN SecondPass(nl, xx, ch, ll, i + 1, nr)
    ELSE IF ~COLLISION_CHECKS \/ ch[i] \notin Range(nl)
    THEN SecondPass([nl EXCEPT ![i] = ch[i]], [xx EXCEPT ![i] = xx[ch[i]]],
                    ch, ll, i + 1, nr)
    ELSE SecondPass([nl EXCEPT ![i] = ll[i]], xx, ch, ll, i + 1, nr)

\* The two loops of step: <<next_locs, x>>.
MoveRobots(xx, ch, ll, nr) == SecondPass(FirstPass(ch, ll, nr), xx, ch, ll, 0, nr)

\* The actions step takes: one candidate index per robot.
Actions == [Robots -> 0..(N_ACTIONS - 1)]

\* Each robot's candidate list as step reads it from the last observation.
Candidates == Explicit([i \in Robots |-> RobotEdges(mov_edges, i)])

\* Destinations read from the candidate list of the next robot.
DestinationsOfNeighbour(cand, a) ==
    Explicit([i \in DOMAIN cand |->
                 cand[(i + 1) % Cardinality(DOMAIN cand)][a[i] + 1]])

\* The destination each robot's action names:
\* mov_edges[1][np.where(mov_edges[0] == i)][action[i]].
Destinations(cand, a) == Explicit([i \in DOMAIN cand |-> cand[i][a[i] + 1]])

\* self.last_loc = self.closest_targets (last_loc is read nowhere else: the
\* edge feature that uses it is switched off).
LastLoc == closest_targets(x, n_robots, n_targets)

\* step(None): only the observation is made.
StepNone ==
    \E e \in {get_obs_reward(Env, n_robots, episode_length)} : Commit(e)

\* step(action) before any observation was made: self.mov_edges is unset.
StepUnset ==
    /\ mov_edges = None
    /\ Commit([Env EXCEPT !.status = "error"])

\* step(action), for every action in [0, N_ACTIONS)^n_robots.
StepActionIn(A) ==
    /\ mov_edges # None
    /\ \E ll \in {LastLoc} :
       \E cand \in {Candidates} :
       \E ch \in {Destinations(cand, a) : a \in A} :
       \E mv \in {MoveRobots(x, ch, ll, n_robots)} :
       \E e \in {get_obs_reward([Env EXCEPT !.x = mv[2]], n_robots, episode_length)} :
          Commit(e)

StepAction == StepActionIn(Actions)

\* What every step call does besides the move and the observation.
StepFrame ==
    /\ status \in {"constructed", "ready"}
    /\ calls < max_calls
    /\ op' = "step"
    /\ calls' = calls + 1
    /\ ctl' = None
    /\ UNCHANGED <<config, graph_cost, graph_previous, cached_solution, np_random,
                   tm, gt, hn, max_calls>>

Step ==
    /\ StepFrame
    /\ (StepNone \/ StepUnset \/ StepAction)

Next == Reset \/ Step

Spec == Init /\ [][Next]_vars

-----------------------------------------------------------------------------
\* construct_time_matrix.

\* np.Inf, as a number larger than every cost.
Inf == 1000000

\* time_matrix[:, sender] + edge_time, with edge_time = 1.0 (Inf + 1 is Inf).
AddEdgeTime(c) == IF c = Inf THEN Inf ELSE c + 1

Smaller(a, b) == IF a < b THEN a ELSE b

\* The body of the for loop over the edges, for the edge <<sender, receiver>>:
\* every origin's row is relaxed at once.
RelaxEdge(st, sender, receiver) ==
    [time_matrix |->
         Explicit([o \in DOMAIN st.time_matrix |->
             [st.time_matrix[o] EXCEPT ![receiver] =
                  Smaller(AddEdgeTime(st.time_matrix[o][sender]), @)]]),
     prev |->
         Explicit([o \in DOMAIN st.prev |->
             [st.prev[o] EXCEPT ![receiver] =
                  IF AddEdgeTime(st.time_matrix[o][sender]) < st.time_matrix[o][receiver]
                  THEN sender ELSE @]]),
     changed_last_iter |->
         st.changed_last_iter
             \/ \E o \in DOMAIN st.time_matrix :
                   AddEdgeTime(st.time_matrix[o][sender]) < st.time_matrix[o][receiver]]

RECURSIVE RelaxEdges(_, _, _)
RelaxEdges(st, edges, k) ==
    IF k > Len(edges) THEN st
    ELSE RelaxEdges(RelaxEdge(st, edges[k][1], edges[k][2]), edges, k + 1)

\* np.sum(time_matrix) == np.Inf
SumIsInf(tmx) == \E o \in DOMAIN tmx : \E v \in DOMAIN tmx[o] : tmx[o][v] = Inf

\* A single round in place of the while loop.
RoundsOnce(st, edges, n_steps, h) ==
    RelaxEdges([st EXCEPT !.changed_last_iter = FALSE], edges, 1)

\* The while loop: a round relaxes every edge once; the loop ends when a round
\* changed nothing, when no entry is Inf any more, or by the break once
\* n_steps > horizon > -1.
RECURSIVE Rounds(_, _, _, _)
Rounds(st, edges, n_steps, h) ==
    IF st.changed_last_iter /\ SumIsInf(st.time_matrix)
    THEN IF n_steps + 1 > h /\ h > -1
         THEN RelaxEdges([st EXCEPT !.changed_last_iter = FALSE], edges, 1)
         ELSE Rounds(RelaxEdges([st EXCEPT !.changed_last_iter = FALSE], edges, 1),
                     edges, n_steps + 1, h)
    ELSE st

\* A result that keeps the infinite entries.
NanToNumKeepsInf(tmx) == tmx

\* np.nan_to_num(time_matrix, posinf=MAX_COST)
NanToNum(tmx) ==
    Explicit([o \in DOMAIN tmx |->
                 Explicit([v \in DOMAIN tmx[o] |->
                              IF tmx[o][v] = Inf THEN MAX_COST ELSE tmx[o][v]])])

TimeMatrixStart(n) ==
    [time_matrix |-> Explicit([o \in 0..(n - 1) |->
                         Explicit([v \in 0..(n - 1) |-> IF o = v THEN 0 ELSE Inf])]),
     prev |-> Explicit([o \in 0..(n - 1) |-> Explicit([v \in 0..(n - 1) |-> -1])]),
     changed_last_iter |-> TRUE]

TimeMatrixResult(st) == [time_matrix |-> NanToNum(st.time_matrix), prev |-> st.prev]

\* construct_time_matrix for n targets and the edge list edges (target indices):
\* the cost matrix and the predecessor matrix, both indexed [origin][node].
construct_time_matrix(edges, n, h) ==
    TimeMatrixResult(Rounds(TimeMatrixStart(n), edges, 0, h))

\* The time-matrix specification: an edge list and a horizon are drawn, and
\* construct_time_matrix is applied to them.
Perms(S) ==
    {f \in [1..Cardinality(S) -> S] : \A i, j \in 1..Cardinality(S) : i # j => f[i] # f[j]}

\* The 4-node path graph 0 - 1 - 2 - 3, both directions of every edge.
PathGraphEdges == {<<0, 1>>, <<1, 0>>, <<1, 2>>, <<2, 1>>, <<2, 3>>, <<3, 2>>}

\* The motion graph of the five lattice points 0 = (0,0), 1 = (0,1), 2 = (1,0),
\* 3 = (1,1), 4 = (2,0), a square with a tail, with its edges in one order.
SquareWithTail ==
    <<<<3, 1>>, <<1, 0>>, <<4, 2>>, <<0, 2>>, <<2, 4>>,
      <<2, 3>>, <<2, 0>>, <<3, 2>>, <<0, 1>>, <<1, 3>>>>

\* The path graph under every order of its edges, the square with a tail, and
\* the motion graphs of the road layouts as _initialize_graph lists them.
TmGraphs ==
    {[n |-> 4, edges |-> ord] : ord \in Perms(PathGraphEdges)}
        \cup {[n |-> 5, edges |-> SquareWithTail]}
        \cup {[n |-> Len(GenerateTargets(k)),
               edges |-> MotionEdges(GenerateTargets(k), 0)] :
                  k \in {kk \in RoadFiltered : ~GenerateTargetsRaises(kk)}}

\* No environment is constructed in the specifications of the pure functions.
EnvIdle ==
    /\ n_robots = 1
    /\ episode_length = 1
    /\ nearby_starts = FALSE
    /\ frac_active_targets = <<1, 1>>
    /\ horizon = HORIZON
    /\ EnvIs([Blank EXCEPT !.status = "idle"])
    /\ NoCaches
    /\ op = "init"
    /\ calls = 0
    /\ max_calls = MaxSteps

env_vars == <<config, status, targets, x, visited, motion_edges, start_region,
              step_counter, episode_reward, mov_edges, reward, done,
              n_motion_edges, senders, receivers, graph_cost, graph_previous,
              cached_solution, np_random, ctl, op, calls, max_calls>>

InitTM ==
    /\ EnvIdle
    /\ gt = GtIdle
    /\ hn = HnIdle
    /\ \E g \in TmGraphs : \E h \in -1..MaxHorizon :
          tm = [pc |-> "start", n |-> g.n, edges |-> g.edges, horizon |-> h,
                time_matrix |-> None, prev |-> None]

ConstructTimeMatrix ==
    /\ tm.pc = "start"
    /\ \E res \in {construct_time_matrix(tm.edges, tm.n, tm.horizon)} :
          tm' = [tm EXCEPT !.pc = "done", !.time_matrix = res.time_matrix,
                           !.prev = res.prev]
    /\ UNCHANGED <<env_vars, gt, hn>>

NextTM == ConstructTimeMatrix

SpecTM == InitTM /\ [][NextTM]_vars

\* The target-generation specification: a set of road-filtered lattice points
\* is drawn, and _generate_targets is applied to it.
Grid == (0..2) \X (0..2)

InitGT ==
    /\ EnvIdle
    /\ tm = TmIdle
    /\ hn = HnIdle
    /\ \E kept \in SUBSET Grid : gt = [pc |-> "start", kept |-> kept, targets |-> <<>>]

GenerateTargetsCall ==
    /\ gt.pc = "start"
    /\ gt' = IF GenerateTargetsRaises(gt.kept)
             THEN [gt EXCEPT !.pc = "raised"]
             ELSE [gt EXCEPT !.pc = "done", !.targets = GenerateTargets(gt.kept)]
    /\ UNCHANGED <<env_vars, tm, hn>>

NextGT == GenerateTargetsCall

SpecGT == InitGT /\ [][NextGT]_vars

-----------------------------------------------------------------------------
\* The VRP data model (vrp_solver.py).

penalty_multiplier == 500
FROM_DEPOT == 100000
EPISODE_LENGTH == 75

VisitedTargets(vis, nr, nt) == {j \in 0..(nt - 1) : vis[nr + j] = 1}

\* Visited flags read without the offset of the robots' entries.
IgnoredUnshifted(vis, curr, nr, nt) ==
    {j \in 0..(nt - 1) : vis[j] = 1 /\ \A i \in DOMAIN curr : curr[i] - nr # j}

\* ignore = np.where(visited[n_robots:] and fill), fill being 0 at init_loc
Ignored(vis, curr, nr, nt) ==
    {j \in VisitedTargets(vis, nr, nt) : \A i \in DOMAIN curr : curr[i] - nr # j}

\* create_data_model: node 0 is the depot and node j + 1 is target j.
create_data_model(cost, vis, curr, nr, nt, el) ==
    LET init_loc == Explicit([i \in 0..(nr - 1) |-> curr[i] - nr])
        ignore   == Ignored(vis, curr, nr, nt)
    IN  [episode_length |-> el,
         penalties |-> Explicit([k \in 0..nt |->
                           IF k = 0 THEN 0
                           ELSE IF vis[nr + k - 1] = 1 THEN 0 ELSE penalty_multiplier]),
         time_matrix |-> Explicit([a \in 0..nt |-> Explicit([b \in 0..nt |->
                           IF b = 0 THEN 0
                           ELSE IF a = 0
                                THEN IF (b - 1) \in Range(init_loc) THEN 0 ELSE FROM_DEPOT
                           ELSE IF (a - 1) \in ignore \/ (b - 1) \in ignore
                                THEN penalty_multiplier
                           ELSE cost[a - 1][b - 1]])]),
         num_vehicles |-> nr,
         init_loc |-> Explicit([i \in 0..(nr - 1) |-> init_loc[i] + 1]),
         depot |-> 0]

\* The sequences of at most k distinct members of S.
RECURSIVE DistinctSeqs(_, _)
DistinctSeqs(S, k) ==
    IF k <= 0 THEN {<<>>}
    ELSE {<<>>} \cup UNION {{<<s>> \o t : t \in DistinctSeqs(S \ {s}, k - 1)} : s \in S}

\* The time a vehicle spends on the nodes route (data-model indices) after
\* leaving the depot; the way back to the depot costs nothing.
RECURSIVE RouteTime(_, _)
RouteTime(tmx, route) ==
    IF Len(route) < 2 THEN 0
    ELSE tmx[route[1]][route[2]] + RouteTime(tmx, Tail(route))

\* What solve_vrp can return.  The solver's search is not modelled: every
\* assignment the routing model admits is an outcome.  Each vehicle's first
\* stop is asserted to be a start node of its own, a node is on one route at
\* most, and a route's time is at most trajectory_length.  Routes are lists
\* of agent indices.
VrpRoutes(data, nr, nt, trajectory_length) ==
    LET starts == Range(data.init_loc)
        rests(i) == {r \in DistinctSeqs((1..nt) \ starts, trajectory_length) :
                        RouteTime(data.time_matrix, <<data.init_loc[i]>> \o r)
                            <= trajectory_length}
    IN  {Explicit([i \in 0..(nr - 1) |->
             [k \in 1..(1 + Len(rs[i])) |->
                 (IF k = 1 THEN data.init_loc[i] ELSE rs[i][k - 1]) - 1 + nr]]) :
         rs \in {f \in [0..(nr - 1) -> UNION {rests(i) : i \in 0..(nr - 1)}] :
                    /\ \A i \in 0..(nr - 1) : f[i] \in rests(i)
                    /\ \A i, j \in 0..(nr - 1) :
                          i # j => Range(f[i]) \cap Range(f[j]) = {}}}

\* solve_vrp raises when the routing library is missing, when it finds no
\* assignment, and when a vehicle's first stop is not a start node of its own:
\* two robots on one node cannot both start there.
VrpMustRaise(curr) == \E i, j \in DOMAIN curr : i # j /\ curr[i] = curr[j]

-----------------------------------------------------------------------------
\* The controller.

\* a[k] for a Python index k of an array of n entries
PyIndex(k, n) == IF k < 0 THEN k + n ELSE k
InBounds(k, n) == -n <= k /\ k < n

\* (motion_edges[0] - n_robots, motion_edges[1] - n_robots)
TargetEdges(me, nr) == [k \in 1..Len(me) |-> <<me[k][1] - nr, me[k][2] - nr>>]

\* r[:, np.where(visited[n_robots:] == 1)] = MAX_COST.  visited is an
\* (n_agents, 1) array, so np.where returns a row array and a column array of
\* zeros, and both index the columns of r: the visited targets and, when
\* there is one, column 0.
MaskedColumns(vis, nr, nt) ==
    LET v == VisitedTargets(vis, nr, nt)
    IN  IF v = {} THEN {} ELSE v \cup {0}

\* r = graph_cost[curr_loc - n_robots, :] after masking, for one robot
MaskedRow(cost, masked, c, nr, nt) ==
    Explicit([j \in 0..(nt - 1) |-> IF j \in masked THEN MAX_COST ELSE cost[c - nr][j]])

\* greedy_loc: np.argmin of each masked row, -1 when that cost is MAX_COST
greedy_loc(cost, vis, curr, nr, nt) ==
    LET masked == MaskedColumns(vis, nr, nt)
    IN  Explicit([i \in 0..(nr - 1) |->
            LET r == MaskedRow(cost, masked, curr[i], nr, nt)
                g == ArgMin(r)
            IN  IF r[g] = MAX_COST THEN -1 ELSE g + nr])

\* A plan branch that drops the front waypoint wherever the robot stands.
AdvanceAlways(route, c, g) ==
    IF Len(route) > 1 THEN <<Tail(route), route[2]>>
    ELSE IF Len(route) = 1 THEN <<<<>>, 0>>
    ELSE <<route, g>>

\* The plan branch for one robot: its route after the call and its next_loc.
\* next_loc starts as np.zeros and stays 0 where no branch assigns it.
Advance(route, c, g) ==
    IF Len(route) > 1
    THEN LET rest == IF c = route[1] THEN Tail(route) ELSE route
         IN  <<rest, rest[1]>>
    ELSE IF Len(route) = 1
         THEN IF c = route[1] THEN <<<<>>, 0>> ELSE <<route, route[1]>>
         ELSE <<route, g>>

\* A next step that is the target itself.
NextStepIsTarget(prev, nl, c, nr, nt) == PyIndex(nl - nr, nt)

\* graph_previous[next_loc - n_robots, curr_loc - n_robots]
NextStep(prev, nl, c, nr, nt) == prev[PyIndex(nl - nr, nt)][c - nr]

\* A test that looks at the target decision only.
NoPathTargetOnly(nl, pv) == nl = -1

\* next_loc == -1 or graph_previous[...] == -1
NoPath(nl, pv) == nl = -1 \/ pv = -1

\* np.where(candidates == next_step)[0][0], as an action index; -1 when the
\* first [0] finds nothing (IndexError).
FirstMatch(cand, v) ==
    IF \E k \in DOMAIN cand : cand[k] = v
    THEN (CHOOSE k \in DOMAIN cand :
             cand[k] = v /\ \A m \in DOMAIN cand : cand[m] = v => k <= m) - 1
    ELSE -1

\* The translation of one robot's target decision: kind says whether the
\* action is drawn at random, is the next hop's index (act), or an IndexError
\* is raised by the predecessor matrix ("index") or the search ("lookup").
Translate(prev, nl, c, cand, nr, nt) ==
    IF nl = -1 THEN [kind |-> "random", act |-> -1]
    ELSE IF ~InBounds(nl - nr, nt) THEN [kind |-> "index", act |-> -1]
    ELSE LET pv == NextStep(prev, nl, c, nr, nt)
         IN  IF NoPath(nl, pv) THEN [kind |-> "random", act |-> -1]
             ELSE LET k == FirstMatch(cand, pv + nr)
                  IN  IF k = -1 THEN [kind |-> "lookup", act |-> -1]
                      ELSE [kind |-> "hop", act |-> k]

\* The first exception of the translation loop, or "none".
TranslateError(tr) ==
    IF \E i \in DOMAIN tr : tr[i].kind \in {"index", "lookup"}
    THEN tr[CHOOSE i \in DOMAIN tr :
               /\ tr[i].kind \in {"index", "lookup"}
               /\ \A j \in DOMAIN tr : tr[j].kind \in {"index", "lookup"} => i <= j].kind
    ELSE "none"

\* The action arrays the translation can return: np_random.choice(n_actions)
\* for the robots without a path, the next hop's index for the others.
TranslatedActions(tr) ==
    {u \in [DOMAIN tr -> 0..(N_ACTIONS - 1)] :
        \A i \in DOMAIN tr : tr[i].kind = "hop" => u[i] = tr[i].act}

\* A test that looks at the cache only.
MustSolveIfNone(cached, hz, reset_solution) == cached = None

\* self.cached_solution is None or self.horizon > -1 or reset_solution
MustSolve(cached, hz, reset_solution) == cached = None \/ hz > -1 \/ reset_solution

\* What a controller call returns and leaves, given the target decisions;
\* call says how it was called and whether it called solve_vrp.
ControllerReturns(call, curr, gl, nl, routes) ==
    \E tr \in {Explicit([i \in Robots |->
                  Translate(graph_previous', nl[i], curr[i], RobotEdges(mov_edges, i),
                            n_robots, n_targets)])} :
    \E err \in {TranslateError(tr)} :
       /\ cached_solution' = routes
       /\ \E u \in (IF err = "none" THEN TranslatedActions(tr) ELSE {None}) :
             ctl' = [greedy |-> call.greedy, reset_solution |-> call.reset_solution,
                     solved |-> call.solved, error |-> err, curr_loc |-> curr,
                     greedy_loc |-> gl, next_loc |-> nl, u_ind |-> u,
                     random |-> {i \in Robots : tr[i].kind = "random"}]

\* solve_vrp raised: the caches are as they were.
ControllerSolverRaises(call, curr, gl) ==
    /\ cached_solution' = cached_solution
    /\ ctl' = [greedy |-> call.greedy, reset_solution |-> call.reset_solution,
               solved |-> call.solved, error |-> "solver", curr_loc |-> curr,
               greedy_loc |-> gl, next_loc |-> None, u_ind |-> None, random |-> {}]

\* min(horizon, EPISODE_LENGTH - step_counter), or the episode length of the
\* data model when the horizon is -1
TrajectoryLength ==
    IF horizon > -1 THEN Min({horizon, EPISODE_LENGTH - step_counter})
    ELSE episode_length

\* The ways the controller is called: greedy-only (reset_solution is not read
\* then), and plan-then-greedy with and without reset_solution; solved says
\* whether the call reaches solve_vrp.
ControllerCalls ==
    {[greedy |-> TRUE, reset_solution |-> FALSE, solved |-> FALSE]}
        \cup {[greedy |-> FALSE, reset_solution |-> rs,
                solved |-> MustSolve(cached_solution, horizon, rs)] : rs \in BOOLEAN}

\* controller(random=False, greedy, reset_solution) on an episode, called in
\* one of the ways of called.
ControllerOn(called) ==
    /\ status = "ready"
    /\ ctl = None
    /\ calls < max_calls
    /\ \E g \in {IF graph_previous = None
                 THEN construct_time_matrix(TargetEdges(motion_edges, n_robots),
                                            n_targets, horizon)
                 ELSE [time_matrix |-> graph_cost, prev |-> graph_previous]} :
       \E curr \in {closest_targets(x, n_robots, n_targets)} :
       \E gl \in {greedy_loc(g.time_matrix, visited, curr, n_robots, n_targets)} :
          /\ graph_cost' = g.time_matrix
          /\ graph_previous' = g.prev
          /\ \E call \in called :
                IF call.greedy
                THEN ControllerReturns(call, curr, gl, gl, cached_solution)
                ELSE IF call.solved
                THEN \/ ControllerSolverRaises(call, curr, gl)
                     \/ /\ ~VrpMustRaise(curr)
                        /\ \E data \in {create_data_model(g.time_matrix, visited, curr,
                                            n_robots, n_targets, episode_length)} :
                           \E sol \in VrpRoutes(data, n_robots, n_targets,
                                                TrajectoryLength) :
                           \E adv \in {Explicit([i \in Robots |->
                                          Advance(sol[i], curr[i], gl[i])])} :
                              ControllerReturns(call, curr, gl,
                                  Explicit([i \in Robots |-> adv[i][2]]),
                                  Explicit([i \in Robots |-> adv[i][1]]))
                ELSE \E adv \in {Explicit([i \in Robots |->
                                    Advance(cached_solution[i], curr[i], gl[i])])} :
                        ControllerReturns(call, curr, gl,
                            Explicit([i \in Robots |-> adv[i][2]]),
                            Explicit([i \in Robots |-> adv[i][1]]))
    /\ UNCHANGED <<config, status, targets, x, visited, motion_edges, start_region,
                   step_counter, episode_reward, mov_edges, reward, done,
                   n_motion_edges, senders, receivers, np_random, calls, tm, gt, hn, max_calls>>
    /\ op' = "controller"

Controller == ControllerOn(ControllerCalls)

\* step(action) with the action the controller returned.
StepControlled ==
    /\ ctl # None
    /\ ctl.error = "none"
    /\ StepFrame
    /\ StepActionIn({ctl.u_ind})

CtlRobots == 1..2
CtlHorizons == {-1, 0}

InitCtl ==
    /\ Constructed(CtlRobots, CtlHorizons)
    /\ tm = TmIdle
    /\ gt = GtIdle
    /\ hn = HnIdle

NextCtl == Reset \/ Controller \/ StepControlled

SpecCtl == InitCtl /\ [][NextCtl]_vars

-----------------------------------------------------------------------------
\* seed.

\* The fields seed can touch: the environment's fields, the caches and the
\* generator.
Seedable ==
    [env |-> Env, graph_cost |-> graph_cost, graph_previous |-> graph_previous,
     cached_solution |-> cached_solution, np_random |-> np_random]

\* A seed that also starts the episode's bookkeeping afresh.
SeedAndRestart(s, value) ==
    [s EXCEPT !.np_random = SeededWith(value), !.env.step_counter = 0,
              !.cached_solution = None]

\* self.np_random, seed = seeding.np_random(seed)
seed(s, value) == [s EXCEPT !.np_random = SeededWith(value)]

SeedValues == {1, 2}

\* seed(value), on an environment that was constructed.
Seed ==
    /\ status \in {"constructed", "ready"}
    /\ \E value \in SeedValues :
       \E s \in {seed(Seedable, value)} :
          /\ Commit(s.env)
          /\ graph_cost' = s.graph_cost
          /\ graph_previous' = s.graph_previous
          /\ cached_solution' = s.cached_solution
          /\ np_random' = s.np_random
    /\ op' = "seed"
    /\ UNCHANGED <<config, ctl, calls, tm, gt, hn, max_calls>>

SeedRobots == {1}

InitSeed ==
    /\ Constructed(SeedRobots, CtlHorizons)
    /\ tm = TmIdle
    /\ gt = GtIdle
    /\ hn = HnIdle

NextSeed == Reset \/ Controller \/ StepControlled \/ Seed

SpecSeed == InitSeed /\ [][NextSeed]_vars

-----------------------------------------------------------------------------
\* Greedy coverage: one robot, horizon -1, a long step budget; after one
\* reset the controller is called greedy-only and its action is applied with
\* step, again and again.

InitGreedy ==
    /\ \E c \in GreedyConfigs :
          /\ n_robots = c[1]
          /\ nearby_starts = c[2]
          /\ frac_active_targets = c[3]
          /\ episode_length = c[4]
    /\ horizon = -1
    /\ \E kept \in RoadFiltered :
         \E i0 \in StartChoices(kept, nearby_starts) :
            \E e \in {Construct(kept, n_robots, nearby_starts, i0)} : EnvIs(e)
    /\ NoCaches
    /\ op = "init"
    /\ calls = 0
    /\ max_calls = GreedyEpisodeLength
    /\ tm = TmIdle
    /\ gt = GtIdle
    /\ hn = HnIdle

\* step(action) on the fields e.
step_fields(e, a, nr, el) ==
    IF e.mov_edges = None THEN [e EXCEPT !.status = "error"]
    ELSE LET ll == closest_targets(e.x, nr, Len(e.targets))
             cand == Explicit([i \in 0..(nr - 1) |-> RobotEdges(e.mov_edges, i)])
             mv == MoveRobots(e.x, Destinations(cand, a), ll, nr)
         IN  get_obs_reward([e EXCEPT !.x = mv[2]], nr, el)

\* The first reset after construction.
FirstReset == status = "constructed" /\ Reset

\* A counter followed up to top: every value above episode_length makes
\* step_counter == episode_length false alike.
UpTo(k, top) == IF k < top THEN k ELSE top

\* step(action) with the action the controller returned, step_counter being
\* followed up to episode_length + 1 and calls up to max_calls - 1, so that
\* the caller is never stopped.
GreedyStep ==
    /\ ctl # None
    /\ ctl.error = "none"
    /\ status = "ready"
    /\ \E e \in {step_fields(Env, ctl.u_ind, n_robots, episode_length)} :
          Commit([e EXCEPT !.step_counter = UpTo(@, episode_length + 1)])
    /\ op' = "step"
    /\ calls' = UpTo(calls + 1, max_calls - 1)
    /\ ctl' = None
    /\ UNCHANGED <<config, graph_cost, graph_previous, cached_solution, np_random,
                   tm, gt, hn, max_calls>>

\* controller(greedy=True)
GreedyCalls == {call \in ControllerCalls : call.greedy}

GreedyController == ControllerOn(GreedyCalls)

NextGreedy == FirstReset \/ GreedyController \/ GreedyStep

\* The caller's two calls, by what enables them and what they leave in op.
ControllerCalled == status = "ready" /\ ctl = None /\ op' = "controller"
ActionApplied ==
    /\ status = "ready"
    /\ ctl # None
    /\ ctl.error = "none"
    /\ op' = "step"

\* The caller goes on calling controller and step: whenever one of the two
\* calls can be made, it is made.
SpecGreedy ==
    /\ InitGreedy
    /\ [][NextGreedy]_vars
    /\ WF_op(ControllerCalled)
    /\ WF_op(ActionApplied)

-----------------------------------------------------------------------------
\* Partial observability (hide_nodes = True): reset and step keep the
\* discovered flag of every node.  The specification has its own road
\* layouts, wide enough for a node to be out of a robot's discovery radius;
\* hn holds the environment's fields (env), discovered_nodes, the number of
\* step calls since the last reset and, computed once, the outcomes reset can
\* have for the constructor arguments (resets).

\* 4.0 * DELTA, in units of DELTA
DiscoveryRadius == 4

HideRoads ==
    { {<<0, 0>>, <<0, 1>>, <<0, 2>>, <<0, 3>>, <<1, 3>>, <<2, 3>>, <<3, 3>>},
      {<<0, 0>>, <<0, 1>>, <<0, 2>>, <<0, 3>>} }

\* np.vstack((np.ones((n_robots, 1)), np.zeros((max_nodes - n_robots, 1))))
RobotsDiscovered(nr) ==
    Explicit([j \in 0..(max_nodes - 1) |-> IF j < nr THEN 1 ELSE 0])

\* _nodes_within_radius(radius, x[:n_robots], x[:n_agents]): for every node,
\* whether some robot is within the radius of it.
nodes_within_radius(radius, xx, nr, na) ==
    Explicit([j \in 0..(na - 1) |->
                 \E i \in 0..(nr - 1) : Dist2(xx[i], xx[j]) <= radius * radius])

\* A discovery that keeps only the nodes seen now.
DiscoverSeenOnly(d, seen, na) ==
    Explicit([j \in DOMAIN d |->
                 IF j < na THEN (IF seen[j] THEN 1 ELSE 0) ELSE d[j]])

\* discovered_nodes[0:n_agents] = (discovered_nodes[0:n_agents] + seen_nodes) > 0.0
discover(d, seen, na) ==
    Explicit([j \in DOMAIN d |->
                 IF j < na
                 THEN (IF d[j] + (IF seen[j] THEN 1 ELSE 0) > 0 THEN 1 ELSE 0)
                 ELSE d[j]])

\* The hide_nodes block of _get_obs_reward, given the fields e2 the call
\* leaves: an exception is raised before the block is reached.
ObsDiscovers(d, e2, nr) ==
    IF e2.status \in {"shape_error", "error"} THEN d
    ELSE LET na == nr + Len(e2.targets)
         IN  discover(d, nodes_within_radius(DiscoveryRadius, e2.x, nr, na), na)

\* Every outcome of reset on the layouts of HideRoads.
HideResetOutcomes(nr, nearby, frac, el) ==
    UNION {ResetOnGraph(initialize_graph(Blank, GenerateTargets(ki[1]), nr, nearby, ki[2]),
                        nr, frac, el) :
               ki \in UNION {{<<kept, i0>> : i0 \in StartChoices(kept, nearby)} :
                                 kept \in HideRoads}}

HideRobots == 1..2

InitHide ==
    /\ n_robots \in HideRobots
    /\ episode_length \in 1..MaxEpisodeLength
    /\ nearby_starts \in BOOLEAN
    /\ frac_active_targets \in FracChoices
    /\ horizon = HORIZON
    /\ EnvIs([Blank EXCEPT !.status = "idle"])
    /\ NoCaches
    /\ op = "init"
    /\ calls = 0
    /\ max_calls = MaxSteps
    /\ tm = TmIdle
    /\ gt = GtIdle
    /\ \E outcomes \in {HideResetOutcomes(n_robots, nearby_starts,
                                           frac_active_targets, episode_length)} :
       \E kept \in HideRoads :
       \E i0 \in StartChoices(kept, nearby_starts) :
          hn = [pc |-> "init",
                env |-> Construct(kept, n_robots, nearby_starts, i0),
                discovered_nodes |-> RobotsDiscovered(n_robots),
                calls |-> 0,
                resets |-> outcomes]

\* reset() with hide_nodes: _initialize_graph and reset itself set
\* discovered_nodes to the robots alone, and the first observation adds the
\* nodes they see.
HideReset ==
    /\ hn.pc # "idle"
    /\ \/ hn.env.status = "constructed"
       \/ hn.env.status = "ready" /\ hn.env.done
    /\ \E r \in hn.resets :
          hn' = [hn EXCEPT
                   !.pc = "reset",
                   !.env = r,
                   !.discovered_nodes =
                       IF r.status = "ready"
                       THEN ObsDiscovers(RobotsDiscovered(n_robots), r, n_robots)
                       ELSE RobotsDiscovered(n_robots),
                   !.calls = 0]
    /\ UNCHANGED <<env_vars, tm, gt>>

\* step(action) with hide_nodes, for None and for every action.
HideStep ==
    /\ hn.pc # "idle"
    /\ hn.env.status \in {"constructed", "ready"}
    /\ hn.calls < MaxSteps
    /\ \E e2 \in {get_obs_reward(hn.env, n_robots, episode_length)}
                  \cup {step_fields(hn.env, a, n_robots, episode_length) :
                            a \in Actions} :
          hn' = [hn EXCEPT
                   !.pc = "step",
                   !.env = e2,
                   !.discovered_nodes = ObsDiscovers(@, e2, n_robots),
                   !.calls = @ + 1]
    /\ UNCHANGED <<env_vars, tm, gt>>

NextHide == HideReset \/ HideStep

SpecHide == InitHide /\ [][NextHide]_vars

-----------------------------------------------------------------------------
\* Properties of step's collision policy.  They are stated on every state in
\* which step(action) can be called, for every action it can be called with,
\* through the operators the Step action applies.

CanStep == status \in {"constructed", "ready"} /\ mov_edges # None

\* Robot i ends the step at node d / at its own previous node, in the result
\* mv = <<next_locs, x>> of the two loops.
Arrives(mv, i, d) == mv[1][i] = d /\ mv[2][i] = x[d]
Stays(mv, ll, j) == mv[1][j] = ll[j] /\ mv[2][j] = x[j]

\* The pairs i < j of robots whose actions name the same node, neither action
\* being a no-op.
Contenders(ch, ll) ==
    {p \in (DOMAIN ch) \X (DOMAIN ch) :
        /\ p[1] < p[2]
        /\ ch[p[1]] = ch[p[2]]
        /\ ch[p[1]] # ll[p[1]]
        /\ ch[p[2]] # ll[p[2]]}

\* No robot other than i and j has a no-op at d, and no robot before i ends
\* the step at d.
Uncontested(ch, ll, mv, i, j) ==
    /\ \A k \in DOMAIN ch \ {i, j} : ~(ch[k] = ch[i] /\ ll[k] = ch[i])
    /\ \A k \in DOMAIN ch : k < i => mv[1][k] # ch[i]

LowerWins(ch, ll, mv) ==
    \A p \in Contenders(ch, ll) : Arrives(mv, p[1], ch[p[1]]) /\ Stays(mv, ll, p[2])

LowerWinsIfUncontested(ch, ll, mv) ==
    \A p \in Contenders(ch, ll) :
        /\ Stays(mv, ll, p[2])
        /\ IF Uncontested(ch, ll, mv, p[1], p[2])
           THEN Arrives(mv, p[1], ch[p[1]])
           ELSE Stays(mv, ll, p[1])

\* C1, as claimed: whenever two robots choose the same destination and neither
\* action is a no-op, the lower-indexed robot ends the step at the destination
\* and the other one at its own previous node.
C1_LowerIndexWins ==
    CanStep =>
        \A ll \in {LastLoc} : \A cand \in {Candidates} : \A a \in Actions :
        \A ch \in {Destinations(cand, a)} :
        \A mv \in {MoveRobots(x, ch, ll, n_robots)} : LowerWins(ch, ll, mv)

\* C1, amended: of two robots that choose the same destination, neither by a
\* no-op, the higher-indexed one always ends the step at its own previous
\* node; the lower-indexed one ends it at the destination when no third robot
\* has a no-op there and no robot of lower index ends the step there, and at
\* its own previous node otherwise.
C1_LowerIndexWinsUncontested ==
    CanStep =>
        \A ll \in {LastLoc} : \A cand \in {Candidates} : \A a \in Actions :
        \A ch \in {Destinations(cand, a)} :
        \A mv \in {MoveRobots(x, ch, ll, n_robots)} : LowerWinsIfUncontested(ch, ll, mv)

\* Some action makes two robots contend for a node that a third robot keeps
\* by a no-op, and another makes two robots contend uncontested.
C1_Witness ==
    /\ CanStep
    /\ status = "ready"
    /\ \E a \in Actions :
          \E p \in Contenders(Destinations(Candidates, a), LastLoc) :
             /\ Uncontested(Destinations(Candidates, a), LastLoc,
                            MoveRobots(x, Destinations(Candidates, a), LastLoc, n_robots),
                            p[1], p[2])
             /\ Arrives(MoveRobots(x, Destinations(Candidates, a), LastLoc, n_robots),
                        p[1], Destinations(Candidates, a)[p[1]])
    /\ \E a \in Actions :
          \E p \in Contenders(Destinations(Candidates, a), LastLoc) :
             ~Uncontested(Destinations(Candidates, a), LastLoc,
                          MoveRobots(x, Destinations(Candidates, a), LastLoc, n_robots),
                          p[1], p[2])

\* The robots whose action is a no-op, and for such a robot k the other
\* robots whose action names k's node.
NoOps(ch, ll) == {k \in DOMAIN ch : ch[k] = ll[k]}
Rivals(ch, k) == {m \in DOMAIN ch \ {k} : ch[m] = ch[k]}

NoOpPrevails(ch, ll, mv) ==
    \A k \in NoOps(ch, ll) :
        /\ Stays(mv, ll, k)
        /\ \A m \in Rivals(ch, k) : Stays(mv, ll, m)

\* C2: a robot whose action is a no-op stays at its node, and every other
\* robot whose action names that node, of lower or higher index, stays at its
\* own previous node.
C2_NoOpPrevails ==
    CanStep =>
        \A ll \in {LastLoc} : \A cand \in {Candidates} : \A a \in Actions :
        \A ch \in {Destinations(cand, a)} :
        \A mv \in {MoveRobots(x, ch, ll, n_robots)} : NoOpPrevails(ch, ll, mv)

\* Some action is a no-op for a robot while a robot of lower index moves
\* towards its node from elsewhere.
C2_Witness ==
    /\ CanStep
    /\ status = "ready"
    /\ \E a \in Actions :
          \E k \in NoOps(Destinations(Candidates, a), LastLoc) :
             \E m \in Rivals(Destinations(Candidates, a), k) :
                /\ m < k
                /\ LastLoc[m] # LastLoc[k]
                /\ Stays(MoveRobots(x, Destinations(Candidates, a), LastLoc, n_robots),
                         LastLoc, m)

-----------------------------------------------------------------------------
\* Properties of the observation: reward, done flag, visited flags.

NumVisited == SumOver(visited, TargetNodes(n_robots, n_targets))

\* A step call returned (no exception ended it).
StepReturned == op = "step" /\ status \in {"constructed", "ready"}

\* C3: the reward a step call returns is the number of targets whose visited
\* flag the call changed from unset to set, and lies between 0 and n_robots.
C3_RewardCountsNewVisits ==
    [][(op' = "step" /\ status' \in {"constructed", "ready"}) =>
          /\ reward' = Cardinality({t \in TargetNodes(n_robots, n_targets) :
                                       visited[t] = 0 /\ visited'[t] = 1})
          /\ reward' \in 0..n_robots]_vars

\* A step call returned a positive reward although targets were visited
\* before it.
C3_Witness == StepReturned /\ status = "ready" /\ reward >= 1 /\ NumVisited > reward

\* C4, as claimed: in an episode started by reset with episode_length = N in
\* which not all targets are visited, the first N - 1 step calls return done =
\* FALSE and the N-th returns done = TRUE.
C4_DoneAtEpisodeLength ==
    (StepReturned /\ status = "ready" /\ NumVisited < n_targets
         /\ calls <= episode_length)
        => (done <=> calls = episode_length)

\* C5: a step call after which every target is visited returns done = TRUE.
C5_AllVisitedIsDone ==
    (StepReturned /\ NumVisited = n_targets) => done

\* A step call of an episode visited the last target, and the step counter is
\* not the episode length.
C5_Witness ==
    /\ StepReturned
    /\ status = "ready"
    /\ reward >= 1
    /\ NumVisited = n_targets
    /\ step_counter # episode_length
    /\ done

\* C6: a step call leaves set every visited flag that was set before it.
C6_VisitedStaysSet ==
    [][op' = "step" =>
          \A t \in DOMAIN visited :
             visited[t] = 1 => (t \in DOMAIN visited' /\ visited'[t] = 1)]_vars

\* After two step calls of an episode a target no robot is on is visited
\* while another target is not.
C6_Witness ==
    /\ StepReturned
    /\ status = "ready"
    /\ calls >= 2
    /\ \E t \in TargetNodes(n_robots, n_targets) :
          visited[t] = 1 /\ t \notin Range(LastLoc)
    /\ NumVisited < n_targets

-----------------------------------------------------------------------------
\* Properties of get_action_edges.

\* The last call ran get_action_edges, on the agents' positions as they are.
ActionEdgesComputed ==
    /\ op \in {"reset", "step"}
    /\ status \in {"constructed", "ready", "shape_error"}

\* C7, as claimed: after every reset and every step each robot's candidate
\* list has exactly N_ACTIONS receiver entries, whatever the degree of its
\* node, and the sender and receiver arrays have N_ACTIONS * n_robots entries.
C7_ExactlyKCandidates ==
    ActionEdgesComputed =>
        \A ll \in {LastLoc} : \A ae \in {get_action_edges(motion_edges, ll, n_robots)} :
            /\ \A i \in Robots : Len(NextNodes(motion_edges, ll[i])) = N_ACTIONS
            /\ Len(ae.senders) = N_ACTIONS * n_robots
            /\ Len(ae.receivers) = N_ACTIONS * n_robots

\* The positions in the motion edge list of the edges that leave node c.
OutEdges(c) == {p \in 1..Len(motion_edges) : motion_edges[p][1] = c}

\* cand is: the receivers of the edges leaving c in the order of the edge
\* list, then c in every remaining slot up to N_ACTIONS.
NeighboursThenLoops(cand, c) ==
    /\ Len(cand) = N_ACTIONS
    /\ \A k \in 1..N_ACTIONS :
          IF k <= Cardinality(OutEdges(c))
          THEN \E p \in OutEdges(c) :
                  /\ Cardinality({q \in OutEdges(c) : q < p}) = k - 1
                  /\ cand[k] = motion_edges[p][2]
          ELSE cand[k] = c

\* C8: a robot whose node has fewer than N_ACTIONS outgoing motion edges gets
\* exactly N_ACTIONS candidates: the node's neighbours in edge-list order,
\* then loops to the node.
C8_PaddedWithLoops ==
    CanStep =>
        \A ll \in {LastLoc} : \A cand \in {Candidates} :
            \A i \in Robots :
                Cardinality(OutEdges(ll[i])) < N_ACTIONS
                    => NeighboursThenLoops(cand[i], ll[i])

\* A robot of an episode stands on a node with two or three outgoing edges, a
\* neighbour other than the node itself among them.
C8_Witness ==
    /\ CanStep
    /\ status = "ready"
    /\ \E i \in Robots :
          /\ Cardinality(OutEdges(LastLoc[i])) \in 2..(N_ACTIONS - 1)
          /\ Candidates[i][N_ACTIONS] = LastLoc[i]
          /\ \E k \in 1..2 : Candidates[i][k] # LastLoc[i]

-----------------------------------------------------------------------------
\* Properties of construct_time_matrix on the 4-node path graph.

Abs(k) == IF k < 0 THEN -k ELSE k

\* construct_time_matrix returned for the path graph 0 - 1 - 2 - 3 (with or
\* without self-loops in the edge list) and horizon h.
PathGraphDone(h) ==
    /\ tm.pc = "done"
    /\ tm.n = 4
    /\ {e \in Range(tm.edges) : e[1] # e[2]} = PathGraphEdges
    /\ tm.horizon = h

\* The nodes met when the predecessor matrix is followed from node v back to
\* the origin o, as a path from o to v; <<>> when o is not reached in fuel steps.
RECURSIVE PathBack(_, _, _, _)
PathBack(prev, o, v, fuel) ==
    IF v = o THEN <<o>>
    ELSE IF fuel = 0 \/ prev[o][v] \notin DOMAIN prev THEN <<>>
    ELSE IF PathBack(prev, o, prev[o][v], fuel - 1) = <<>> THEN <<>>
    ELSE Append(PathBack(prev, o, prev[o][v], fuel - 1), v)

\* The shortest path from o to v in the path graph.
StraightPath(o, v) ==
    [k \in 1..(Abs(v - o) + 1) |-> IF o <= v THEN o + k - 1 ELSE o - k + 1]

\* C9: on the 4-node path graph with horizon -1 every cost is the exact hop
\* distance, and the predecessor matrix followed from any node back to any
\* origin gives the shortest path between them.
C9_PathGraphExact ==
    PathGraphDone(-1) =>
        \A o, v \in 0..3 :
            /\ tm.time_matrix[o][v] = Abs(o - v)
            /\ PathBack(tm.prev, o, v, tm.n) = StraightPath(o, v)

\* construct_time_matrix returned for the path graph with horizon -1 and an
\* edge list that begins with the edges towards node 0: one round over it
\* does not reach node 3 from node 0.
C9_Witness ==
    /\ PathGraphDone(-1)
    /\ tm.edges[1] = <<1, 0>>
    /\ tm.edges[2] = <<2, 1>>
    /\ tm.edges[3] = <<3, 2>>
    /\ tm.time_matrix[0][3] = 3
    /\ tm.prev[0][3] = 2

\* C10, as claimed: on the 4-node path graph with horizon 1 the cost is 1 for
\* every pair of nodes one hop apart and MAX_COST for every pair more than one
\* hop apart.
C10_HorizonOneCutoff ==
    PathGraphDone(1) =>
        \A o, v \in 0..3 :
            /\ Abs(o - v) = 1 => tm.time_matrix[o][v] = 1
            /\ Abs(o - v) > 1 => tm.time_matrix[o][v] = MAX_COST

-----------------------------------------------------------------------------
\* Properties of _generate_targets.

\* The points of K joined to a point of S by a chain of points of K, each
\* within the motion radius of the next.
RECURSIVE Reach(_, _)
Reach(S, K) ==
    IF \E q \in K \ S : \E p \in S : WithinMotionRadius(p, q)
    THEN Reach(S \cup {q \in K : \E p \in S : WithinMotionRadius(p, q)}, K)
    ELSE S

\* The first point of a set in the order of the lattice.
FirstPoint(S) == CHOOSE p \in S : \A q \in S \ {p} : LatticeLess(p, q)

\* C11: the targets are exactly one connected component of the radius graph
\* over the road-filtered points, one of maximum size, and among the
\* components of maximum size the one labelled first (the one that holds the
\* earliest point); so every target is joined to every other target.
C11_FirstLargestComponent ==
    gt.pc = "done" =>
        \A T \in {Range(gt.targets)} :
            /\ T # {}
            /\ T \subseteq gt.kept
            /\ Len(gt.targets) = Cardinality(T)
            /\ \A p \in T : Reach({p}, gt.kept) = T
            /\ \A q \in gt.kept :
                  \A Cq \in {Reach({q}, gt.kept)} :
                     /\ Cardinality(Cq) <= Cardinality(T)
                     /\ Cardinality(Cq) = Cardinality(T)
                           => (Cq = T \/ LatticeLess(FirstPoint(T), FirstPoint(Cq)))

\* _generate_targets returned for points that fall into three components, the
\* two largest of equal size, each of more than one point.
C11_Witness ==
    /\ gt.pc = "done"
    /\ Cardinality(Range(gt.targets)) >= 2
    /\ Cardinality({Reach({q}, gt.kept) : q \in gt.kept}) = 3
    /\ \E q \in gt.kept \ Range(gt.targets) :
          Cardinality(Reach({q}, gt.kept)) = Cardinality(Range(gt.targets))

-----------------------------------------------------------------------------
\* Properties of the controller, stated on what the last controller call
\* returned (ctl) and the caches it left.

ControllerReturned == ctl # None

\* The unvisited targets whose cost from node c is below MAX_COST.
ReachableUnvisited(c) ==
    {j \in 0..(n_targets - 1) :
        visited[n_robots + j] = 0 /\ graph_cost[c - n_robots][j] < MAX_COST}

\* g is the decision the greedy policy should make at node c: a reachable
\* unvisited target of minimum cost, or -1 when there is none.
GreedyDecision(c, g) ==
    IF ReachableUnvisited(c) = {} THEN g = -1
    ELSE /\ (g - n_robots) \in ReachableUnvisited(c)
         /\ \A k \in ReachableUnvisited(c) :
               graph_cost[c - n_robots][g - n_robots] <= graph_cost[c - n_robots][k]

\* C12, as claimed: in greedy-only mode every robot's target decision is an
\* unvisited target of minimum cost below MAX_COST from the robot's node, target
\* index 0 included, and it is -1 exactly when there is no such target.
C12_GreedyPicksNearestUnvisited ==
    (ControllerReturned /\ ctl.greedy) =>
        \A i \in Robots : GreedyDecision(ctl.curr_loc[i], ctl.next_loc[i])

\* The plan branch ran in the last controller call: plan-then-greedy mode,
\* and solve_vrp, if called, returned.
PlanBranchRan == ControllerReturned /\ ~ctl.greedy /\ ctl.error # "solver"

\* C13, as claimed: in plan-then-greedy mode every robot whose cached route
\* is empty once the call has advanced it, the call that pops the robot's
\* last waypoint included, gets its greedy choice as target decision.
C13_EmptyRouteFallsBackToGreedy ==
    PlanBranchRan =>
        \A i \in Robots :
            cached_solution[i] = <<>> => ctl.next_loc[i] = ctl.greedy_loc[i]

\* The candidate receivers of robot i in the last observation.
CandidatesOf(i) == Range(RobotEdges(mov_edges, i))

\* The predecessor entry the translation reads for robot i, or -1 when the
\* robot has no target.
PredecessorEntry(i) ==
    IF ctl.next_loc[i] = -1 THEN -1
    ELSE graph_previous[PyIndex(ctl.next_loc[i] - n_robots, n_targets)]
                       [ctl.curr_loc[i] - n_robots]

WithoutPath == {i \in Robots : PredecessorEntry(i) = -1}

\* C15: when some robot's target decision is -1 or its predecessor entry is
\* the sentinel, the controller raises nothing, that robot's action is in
\* [0, N_ACTIONS), and every other robot's action is the index of the next hop
\* towards its own target.
C15_RandomActionForAffectedOnly ==
    (ControllerReturned /\ ctl.error # "solver" /\ WithoutPath # {}) =>
        /\ ctl.error = "none"
        /\ ctl.random = WithoutPath
        /\ \A i \in WithoutPath : ctl.u_ind[i] \in 0..(N_ACTIONS - 1)
        /\ \A i \in Robots \ WithoutPath :
              ctl.u_ind[i] = FirstMatch(RobotEdges(mov_edges, i),
                                        PredecessorEntry(i) + n_robots)

\* One robot has a target but no path to it and gets a random action that is
\* not 0, while another robot is sent along its next hop.
C15_Witness ==
    /\ ControllerReturned
    /\ ctl.error = "none"
    /\ \E i \in WithoutPath : ctl.next_loc[i] # -1 /\ ctl.u_ind[i] # 0
    /\ \E j \in Robots \ WithoutPath : x[PredecessorEntry(j) + n_robots] # x[j]

-----------------------------------------------------------------------------
\* Degenerate geometries.

\* __init__ or reset returned an environment, or never returns.
InstantiatedOrHung == status \in {"constructed", "ready", "hung"}

\* C16, as claimed: on a road-filtered point set that is empty or has no
\* radius edge between distinct points, construction and reset end with an
\* error: whenever they return an environment or loop forever, the target
\* graph they built has an edge, hence two targets at least.
C16_DegenerateGeometryFailsFast ==
    InstantiatedOrHung => Len(targets) >= 2

-----------------------------------------------------------------------------
\* The observation's edge buffers.

\* reset or step returned an observation.
ObservationReturned ==
    /\ op \in {"reset", "step"}
    /\ status \in {"constructed", "ready"}
    /\ mov_edges # None

\* The slots a decoder keeps (sender != -1) and the edges it reads there.
ActiveSlots == {k \in DOMAIN senders : senders[k] # -1}
DecodedEdges == {<<senders[k], receivers[k]>> : k \in ActiveSlots}

\* The motion edges and the action edges in both directions.
WrittenEdges ==
    Range(motion_edges)
        \cup {<<mov_edges[1][k], mov_edges[2][k]>> : k \in DOMAIN mov_edges[1]}

\* C17, as claimed: in every observation reset or step returns, the slots
\* whose sender is not -1 hold exactly the motion edges and the step's action
\* edges in both directions, and every other slot has sender = receiver = -1.
C17_BuffersHoldMotionAndActionEdges ==
    ObservationReturned =>
        /\ DecodedEdges = WrittenEdges
        /\ Cardinality(ActiveSlots) = Len(motion_edges) + Len(mov_edges[1])
        /\ \A k \in DOMAIN senders \ ActiveSlots : receivers[k] = -1

-----------------------------------------------------------------------------
\* The VRP data model of the current state.

\* The time matrix is there: the state solve_vrp is called in.
CanSolve == status = "ready" /\ graph_cost # None

DataModel ==
    create_data_model(graph_cost, visited, closest_targets(x, n_robots, n_targets),
                      n_robots, n_targets, episode_length)

\* The targets (target indices) a robot stands on.
OccupiedTargets == {closest_targets(x, n_robots, n_targets)[i] - n_robots : i \in Robots}

\* The visited targets no robot stands on.
Decoupled == VisitedTargets(visited, n_robots, n_targets) \ OccupiedTargets

-----------------------------------------------------------------------------
\* seed's frame.

\* C19: seed replaces only the random generator: the robots' positions, the
\* visited flags, the step counter, the cached routes, the time and
\* predecessor matrices and the observation buffers are after the call what
\* they were before it.
C19_SeedReplacesOnlyGenerator ==
    [][op' = "seed" =>
          UNCHANGED <<x, visited, step_counter, cached_solution, graph_cost,
                      graph_previous, senders, receivers, n_motion_edges,
                      mov_edges, targets, motion_edges, episode_reward>>]_vars

\* seed was called in the middle of an episode that has a cached route and
\* the matrices: the generator is the seeded one and the rest is still there.
C19_Witness ==
    /\ op = "seed"
    /\ np_random = SeededWith(2)
    /\ step_counter > 1
    /\ cached_solution # None
    /\ \E i \in Robots : cached_solution[i] # <<>>
    /\ graph_cost # None
    /\ \E k \in DOMAIN senders : senders[k] # -1

-----------------------------------------------------------------------------
\* Exactness of the time matrix.

\* The nodes at most d hops from a node of S along the edges E.
RECURSIVE Ball(_, _, _)
Ball(E, S, d) ==
    IF d = 0 THEN S
    ELSE Ball(E, S \cup {e[2] : e \in {f \in Range(E) : f[1] \in S}}, d - 1)

\* The least number of edges from o to v; every node is within n hops in a
\* connected graph of n nodes.
HopCount(E, n, o, v) == Min({d \in 0..n : v \in Ball(E, {o}, d)})

IsConnected(E, n) == \A o \in 0..(n - 1) : Ball(E, {o}, n) = 0..(n - 1)

\* C20, as claimed: with horizon -1, for every connected graph and every
\* order of its edges, the cost construct_time_matrix returns for every
\* ordered pair is the exact shortest hop count.
C20_UnboundedHorizonExact ==
    (tm.pc = "done" /\ tm.horizon = -1 /\ IsConnected(tm.edges, tm.n)) =>
        \A o, v \in 0..(tm.n - 1) :
            tm.time_matrix[o][v] = HopCount(tm.edges, tm.n, o, v)

\* The pair (o, v) was not reached when the relaxation stopped: no edge ever
\* lowered its cost from infinity, so it has no predecessor.
NotReached(o, v) == o # v /\ tm.prev[o][v] = -1

\* C21: every entry of the cost matrix construct_time_matrix returns is a
\* value in [0, MAX_COST], every diagonal entry is 0, and every pair not
\* reached when the relaxation stopped has cost MAX_COST.
C21_CostsAreClamped ==
    tm.pc = "done" =>
        \A o, v \in 0..(tm.n - 1) :
            /\ tm.time_matrix[o][v] \in 0..MAX_COST
            /\ o = v => tm.time_matrix[o][v] = 0
            /\ NotReached(o, v) => tm.time_matrix[o][v] = MAX_COST

\* construct_time_matrix stopped by its horizon with a pair not reached and
\* another pair reached over two edges.
C21_Witness ==
    /\ tm.pc = "done"
    /\ tm.horizon = 0
    /\ \E o, v \in 0..(tm.n - 1) : NotReached(o, v) /\ tm.time_matrix[o][v] = MAX_COST
    /\ \E o, v \in 0..(tm.n - 1) : tm.time_matrix[o][v] = 2

-----------------------------------------------------------------------------
\* The cached plan.

\* The step is a controller call in plan-then-greedy mode.
PlanCall == op' = "controller" /\ ~ctl'.greedy

\* The routes after the step are the routes before it, each as it was or
\* without its front waypoint.
RoutesKeptOrAdvanced ==
    /\ cached_solution # None
    /\ cached_solution' # None
    /\ \A i \in Robots :
          \/ cached_solution'[i] = cached_solution[i]
          \/ cached_solution[i] # <<>> /\ cached_solution'[i] = Tail(cached_solution[i])

\* C22: in plan-then-greedy mode a controller call invokes the route solver
\* exactly when the cached plan is None, the horizon is above -1 or
\* reset_solution was requested; a call that does not invoke it does not
\* replace the cached plan, and neither does a greedy-only call; reset sets
\* the cached plan to None.
C22_SolverCalledWhenNeeded ==
    [][/\ PlanCall =>
             /\ ctl'.solved <=>
                   (cached_solution = None \/ horizon > -1 \/ ctl'.reset_solution)
             /\ ~ctl'.solved => RoutesKeptOrAdvanced
       /\ (op' = "controller" /\ ctl'.greedy) =>
             /\ ~ctl'.solved
             /\ cached_solution' = cached_solution
       /\ op' = "reset" => cached_solution' = None]_vars

\* A plan-then-greedy call with horizon -1 and no reset request found a cached
\* plan and went on with it, without calling the solver.
C22_Witness ==
    /\ op = "controller"
    /\ ~ctl.greedy
    /\ ~ctl.solved
    /\ ctl.error = "none"
    /\ \E i \in Robots : cached_solution[i] # <<>>

\* The step is a controller or step call of an episode with horizon -1 that
\* has a cached plan, and no reset of the plan is requested.
PlanInUse ==
    /\ horizon = -1
    /\ cached_solution # None
    /\ op' \in {"controller", "step"}
    /\ op' = "controller" => ~ctl'.reset_solution

\* C23: with horizon -1 and no reset request, a controller or step call of an
\* episode changes a robot's cached route only by removing its front waypoint,
\* and only in a controller call in which the robot stands on that waypoint;
\* a route never grows and is never reordered.
C23_RouteOnlyLosesReachedFront ==
    [][PlanInUse =>
          /\ cached_solution' # None
          /\ \A i \in Robots :
                \/ cached_solution'[i] = cached_solution[i]
                \/ /\ cached_solution[i] # <<>>
                   /\ cached_solution'[i] = Tail(cached_solution[i])
                   /\ op' = "controller"
                   /\ ctl'.curr_loc[i] = Head(cached_solution[i])]_vars

\* A controller call that went on with the cached plan removed a robot's last
\* waypoint, on which the robot stood.
C23_Witness ==
    /\ op = "controller"
    /\ horizon = -1
    /\ ~ctl.greedy
    /\ ~ctl.solved
    /\ \E i \in Robots : cached_solution[i] = <<>> /\ ctl.next_loc[i] = 0

-----------------------------------------------------------------------------
\* The cached matrices.

\* The matrices construct_time_matrix gives for the motion graph the
\* environment holds.
MatricesOfGraph ==
    construct_time_matrix(TargetEdges(motion_edges, n_robots), n_targets, horizon)

\* C24: the time and predecessor matrices the controller reads are those of
\* the motion graph the environment holds: after every controller call, the
\* first of a graph or a later one, they are what construct_time_matrix gives
\* for that graph, and after a reset that builds a graph they are gone.
C24_MatricesBelongToGraph ==
    /\ (graph_cost = None) <=> (graph_previous = None)
    /\ ControllerReturned =>
          /\ graph_previous # None
          /\ \A g \in {MatricesOfGraph} :
                graph_cost = g.time_matrix /\ graph_previous = g.prev
    /\ op = "reset" /\ status = "ready" => graph_previous = None

\* A controller call after a step of the same episode has read the matrices
\* an earlier call computed.
C24_Witness ==
    /\ graph_previous # None
    /\ ControllerReturned
    /\ calls >= 1

-----------------------------------------------------------------------------
\* The motion edges' prefix of the edge buffers.

\* A motion graph has been built and no call has failed since.
GraphBuilt == status \in {"constructed", "ready"}

\* C25, as claimed: once a motion graph is built, after any step and
\* observation calls on it, a step before the first reset included, the
\* first slots of the sender and receiver buffers, as many as the graph has
\* motion edges, hold the motion edges written when the graph was built.
C25_MotionEdgePrefixKept ==
    GraphBuilt =>
        \A k \in 1..Len(motion_edges) :
            senders[k] = motion_edges[k][1] /\ receivers[k] = motion_edges[k][2]

-----------------------------------------------------------------------------
\* Discovery.

\* The nodes some robot has within the discovery radius in the fields h.env.
SeenIn(h) ==
    nodes_within_radius(DiscoveryRadius, h.env.x, n_robots,
                        n_robots + Len(h.env.targets))

\* C26: with hide_nodes, a step of an episode leaves discovered every node
\* that was discovered before it, and after every reset and every step of an
\* episode the robots are discovered.
C26_DiscoveryIsMonotonic ==
    [][/\ hn.pc \in {"reset", "step"} /\ hn'.pc = "step" =>
            \A j \in DOMAIN hn.discovered_nodes :
                hn.discovered_nodes[j] = 1 => hn'.discovered_nodes[j] = 1
       /\ hn'.pc \in {"reset", "step"} =>
            \A i \in Robots : hn'.discovered_nodes[i] = 1]_vars

\* After a step, a node discovered earlier in the episode is outside every
\* robot's discovery radius.
C26_Witness ==
    /\ hn.pc = "step"
    /\ hn.env.status = "ready"
    /\ \E seen \in {SeenIn(hn)} :
          \E j \in DOMAIN seen : hn.discovered_nodes[j] = 1 /\ ~seen[j]

-----------------------------------------------------------------------------
\* Robots on distinct nodes.

\* The node every robot stands on.
RobotNodes == closest_targets(x, n_robots, n_targets)

\* C27, as claimed: in an episode, which reset starts with the robots on
\* pairwise distinct nodes, no two robots stand on the same node after any
\* steps with any actions.
C27_RobotsOnDistinctNodes ==
    status = "ready" =>
        \A i, j \in Robots : i # j => RobotNodes[i] # RobotNodes[j]

-----------------------------------------------------------------------------
\* Moves along motion edges.

\* C28: in every step that returns, each robot ends on the node it stood on
\* or on one of its candidates, a node joined to the node it stood on by a
\* motion edge.
C28_MovesFollowMotionEdges ==
    [][(op' = "step" /\ CanStep /\ status' = status) =>
          \A old \in {RobotNodes} :
          \A new \in {closest_targets(x', n_robots, n_targets)} :
             \A i \in Robots :
                \/ new[i] = old[i]
                \/ /\ new[i] \in Range(RobotEdges(mov_edges, i))
                   /\ <<old[i], new[i]>> \in Range(motion_edges)]_vars

\* A step in which each of several robots moved to a target nobody had
\* visited.
C28_Witness ==
    /\ StepReturned
    /\ status = "ready"
    /\ n_robots >= 2
    /\ reward = n_robots

-----------------------------------------------------------------------------
\* The done flag after the step budget.

\* The last step call returned done = True with the step budget exhausted.
BudgetExhausted == StepReturned /\ done /\ step_counter = episode_length

\* C29, as claimed: once a step call has returned done = True because the
\* step budget was exhausted, a further step call of the same episode returns
\* done = True too.
C29_DoneStaysAfterBudget ==
    [][(BudgetExhausted /\ op' = "step" /\ status' = status) => done']_vars

-----------------------------------------------------------------------------
\* The visited flags of the robots and of the nodes they stand on.

\* C30: in the state every reset and every step returns, each robot's own
\* visited flag is set and so is the flag of the target it stands on, the
\* start nodes right after reset included.
C30_RobotsAndTheirNodesVisited ==
    ObservationReturned =>
        \A i \in Robots : visited[i] = 1 /\ visited[RobotNodes[i]] = 1

\* A step returned with a robot on a target it has just visited while other
\* targets are still unvisited.
C30_Witness ==
    /\ StepReturned
    /\ status = "ready"
    /\ reward >= 1
    /\ \E t \in TargetNodes(n_robots, n_targets) : visited[t] = 0

-----------------------------------------------------------------------------
\* Termination of get_n_nearest.

\* A motion graph is built, and it is connected.
ConnectedGraphBuilt ==
    /\ status \in {"constructed", "ready", "hung"}
    /\ IsConnected(TargetEdges(motion_edges, n_robots), n_targets)

\* C32, as claimed: on a connected motion graph get_n_nearest(i, n) returns,
\* with i in the set it returns, for every target i and the size n =
\* n_robots * NEARBY_DENSITY that reset and _initialize_graph ask for, also
\* when n is larger than the number of targets.
C32_NNearestTerminates ==
    ConnectedGraphBuilt =>
        \A i \in 0..(n_targets - 1) :
           \A r \in {get_n_nearest(i, n_robots * NEARBY_DENSITY, motion_edges,
                                   n_robots)} :
              ~r.diverges /\ i \in r.set

-----------------------------------------------------------------------------
\* Greedy coverage.

\* reset returned an episode.
EpisodeStarted == op = "reset" /\ status = "ready"

AllVisited == \A t \in TargetNodes(n_robots, n_targets) : visited[t] = 1

\* C31, as claimed: with one robot, greedy-only control, horizon -1 and a
\* connected motion graph, calling the controller and applying its action
\* with step again and again leads from the start of an episode to a step
\* that returns done = True with every target visited.
C31_GreedyCoversAllTargets ==
    EpisodeStarted ~> (StepReturned /\ done /\ AllVisited)

====
